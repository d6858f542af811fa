------------------------- MODULE RedisBreakerProofs -------------------------
(***************************************************************************)
(* Proofs about RedisBreaker, for any number of calls and any settings.    *)
(* Every copy is sound on its own (Sound), so it does not matter for the   *)
(* hash which copy overwrites which. A call that nobody has overtaken      *)
(* holds what its method makes of the hash as it is now (UpToDate), which  *)
(* is what lets its set be compared with the breaker of one instance.      *)
(***************************************************************************)
EXTENDS RedisBreaker, TLAPS

Sound(s) == s \in State /\ (s.state = "healthy" <=> s.failures < s.threshold)

UpToDate(c) ==
  /\ pc[c] = "asking" => copy[c] = Transitioned(Current)
  /\ pc[c] = "reporting" => copy[c] \in {Succeeded(Current), Failed(Current)}

CopiesSound ==
  /\ stored # None => Sound(stored)
  /\ \A c \in Calls : copy[c] # None => Sound(copy[c])

CopiesUpToDate == \A c \in Calls : ~tainted[c] => UpToDate(c)

IInv == TypeOK /\ CopiesSound /\ CopiesUpToDate

-----------------------------------------------------------------------------
(* What the methods make of a copy *)

\* The fields of a hash, as numbers.
LEMMA Fields ==
  ASSUME NEW s \in State
  PROVE  /\ s.state \in {"healthy", "open", "half_open"}
         /\ s.failures \in 0..FailureCap /\ s.failures \in Nat
         /\ s.threshold = Threshold
         /\ s.cooldown \in 1..Horizon /\ s.cooldown \in Nat
         /\ s.elapsed \in 0..Horizon /\ s.elapsed \in Nat
         /\ Threshold \in Nat /\ Threshold > 0 /\ Threshold <= FailureCap
         /\ FailureCap \in Nat /\ Horizon \in Nat
BY RedisBreakerAssumption DEF State

LEMMA FreshSound == Sound(Fresh)
BY RedisBreakerAssumption DEF Sound, Fresh, State

LEMMA TransitionedSound ==
  ASSUME NEW s, Sound(s)
  PROVE  Sound(Transitioned(s))
BY RedisBreakerAssumption DEF Sound, Transitioned, State

LEMMA SucceededSound ==
  ASSUME NEW s, Sound(s)
  PROVE  Sound(Succeeded(s)) /\ ~IsFailure(Succeeded(s))
<1>1. s \in State
  BY DEF Sound
<1>2. 0 \in 0..FailureCap /\ BaseCooldown \in 1..Horizon
  BY RedisBreakerAssumption
<1>3. Succeeded(s) \in State
  BY <1>1, <1>2 DEF Succeeded, State
<1>4. /\ Succeeded(s).state = "healthy" /\ Succeeded(s).failures = 0
      /\ Succeeded(s).threshold = Threshold
  BY <1>1 DEF Succeeded, State
<1> QED
  BY <1>3, <1>4, RedisBreakerAssumption DEF Sound, IsFailure

\* A failure that is counted up to the cap: the count never falls below a threshold
\* that it had reached.
LEMMA FailedSound ==
  ASSUME NEW s, Sound(s)
  PROVE  Sound(Failed(s)) /\ IsFailure(Failed(s))
<1> DEFINE t == Transitioned(s)
           f == UpTo(s.failures + 1, FailureCap)
           state == IF f >= t.threshold \/ t.state = "half_open" THEN "open" ELSE t.state
           cooldown == IF t.state = "half_open" THEN UpTo(2 * t.cooldown, MaxCooldown)
                                                ELSE t.cooldown
<1>1. Sound(t) /\ t.failures = s.failures
  BY TransitionedSound DEF Transitioned, Sound, State
<1>2. t \in State
  BY <1>1 DEF Sound
<1>3. f \in 1..FailureCap /\ f \in Nat /\ (s.failures >= Threshold => f >= Threshold)
  BY <1>1, <1>2, Fields DEF UpTo
<1>4. cooldown \in 1..Horizon
  BY <1>2, Fields, RedisBreakerAssumption DEF UpTo
<1>5. state \in {"healthy", "open", "half_open"} /\ (state = "healthy" <=> f < Threshold)
  BY <1>1, <1>2, <1>3, Fields DEF Sound
<1>6. Failed(s) = [t EXCEPT !.failures = f, !.elapsed = 0, !.state = state,
                            !.cooldown = cooldown]
  BY DEF Failed
<1> HIDE DEF t, f, state, cooldown
<1>7. 0 \in 0..Horizon /\ f \in 0..FailureCap
  BY <1>3, RedisBreakerAssumption
<1>8. /\ Failed(s) \in State
      /\ Failed(s).failures = f /\ Failed(s).state = state
      /\ Failed(s).threshold = Threshold
  BY <1>2, <1>4, <1>5, <1>6, <1>7 DEF State
<1> QED
  BY <1>3, <1>5, <1>8 DEF Sound, IsFailure

LEMMA OlderSound ==
  ASSUME NEW s, s # None, Sound(s)
  PROVE  Sound(Older(s))
<1>1. UpTo(s.elapsed + 1, Horizon) \in 0..Horizon
  BY Fields DEF Sound, UpTo
<1> QED
  BY <1>1 DEF Older, Sound, State

\* What a method gets is sound, whether the hash was there, missing, or not answered.
LEMMA CurrentSound ==
  ASSUME CopiesSound
  PROVE  Sound(Current)
BY FreshSound DEF CopiesSound, Current

-----------------------------------------------------------------------------
(* The inductive invariant *)

LEMMA InitIInv == Init => IInv
BY DEF Init, IInv, TypeOK, CopiesSound, CopiesUpToDate, UpToDate

\* A get puts a sound copy into a call's hand, and one that is up to date unless it
\* failed.
LEMMA GetKeepsIInv ==
  ASSUME IInv, NEW c \in Calls, NEW s, NEW fresh,
         Sound(s), Sound(fresh),
         \/ copy' = [copy EXCEPT ![c] = s] /\ tainted' = [tainted EXCEPT ![c] = FALSE]
         \/ copy' = [copy EXCEPT ![c] = fresh] /\ tainted' = [tainted EXCEPT ![c] = TRUE],
         \/ pc' = [pc EXCEPT ![c] = "asking"] /\ s = Transitioned(Current)
         \/ pc' = [pc EXCEPT ![c] = "reporting"] /\ s \in {Succeeded(Current), Failed(Current)},
         UNCHANGED <<stored, up>>
  PROVE  IInv'
<1>1. Current' = Current /\ Sound(stored)' = Sound(stored)
  BY DEF Current, Sound
<1>2. s \in State /\ fresh \in State /\ s # None /\ fresh # None
  BY NoneAssumption DEF Sound
<1>3. /\ copy'[c] \in {s, fresh} /\ copy'[c] # None
      /\ \A d \in Calls \ {c} : copy'[d] = copy[d] /\ pc'[d] = pc[d] /\ tainted'[d] = tainted[d]
      /\ pc'[c] \in {"asking", "reporting"}
      /\ ~tainted'[c] => copy'[c] = s
  BY <1>2 DEF IInv, TypeOK
<1>4. TypeOK'
  <2>1. /\ copy' \in [Calls -> State \cup {None}] /\ tainted' \in [Calls -> BOOLEAN]
        /\ pc' \in [Calls -> {"idle", "asking", "admitted", "reporting"}]
    BY <1>2 DEF IInv, TypeOK
  <2>2. \A d \in Calls : copy'[d] = None <=> pc'[d] \in {"idle", "admitted"}
    BY <1>3 DEF IInv, TypeOK
  <2>3. stored' \in State \cup {None} /\ up' \in BOOLEAN
    BY DEF IInv, TypeOK
  <2> QED BY <2>1, <2>2, <2>3 DEF TypeOK
<1>5. CopiesSound'
  BY <1>3 DEF IInv, CopiesSound
<1>6. CopiesUpToDate'
  <2>1. ASSUME NEW d \in Calls, ~tainted'[d]
        PROVE  UpToDate(d)'
    <3>1. CASE d = c
      BY <1>1, <1>3, <2>1, <3>1 DEF UpToDate, IInv, TypeOK
    <3>2. CASE d # c
      BY <1>1, <1>3, <2>1, <3>2 DEF UpToDate, IInv, CopiesUpToDate
    <3> QED BY <3>1, <3>2
  <2> QED BY <2>1 DEF CopiesUpToDate
<1> QED BY <1>4, <1>5, <1>6 DEF IInv

\* When a method ends, its copy is in the hash or lost, and whoever held another copy
\* while the hash changed is overtaken.
LEMMA EndKeepsIInv ==
  ASSUME IInv, NEW c \in Calls, copy[c] # None, Set(c) \/ SetFails(c),
         NEW place \in {"idle", "admitted"}, pc' = [pc EXCEPT ![c] = place],
         copy' = [copy EXCEPT ![c] = None], UNCHANGED up
  PROVE  IInv'
<1>1. /\ stored' \in State \cup {None}
      /\ stored' # None => Sound(stored')
      /\ stored' = stored \/ stored' = copy[c]
  BY DEF IInv, TypeOK, CopiesSound, Set, SetFails, Sound
<1>2. /\ copy'[c] = None /\ pc'[c] = place
      /\ \A d \in Calls \ {c} : copy'[d] = copy[d] /\ pc'[d] = pc[d]
  BY DEF IInv, TypeOK
<1>3. tainted' = [d \in Calls |->
                    d # c /\ (tainted[d] \/ (stored' # stored /\ copy[d] # None))]
  BY DEF Set, SetFails, Overtake
<1>4. TypeOK'
  <2>1. tainted' \in [Calls -> BOOLEAN]
    BY <1>3 DEF IInv, TypeOK
  <2> QED BY <1>1, <1>2, <2>1 DEF IInv, TypeOK
<1>5. CopiesSound'
  BY <1>1, <1>2 DEF IInv, CopiesSound, Sound
<1>6. CopiesUpToDate'
  <2>1. ASSUME NEW d \in Calls, ~tainted'[d]
        PROVE  UpToDate(d)'
    <3>1. CASE d = c
      BY <1>2, <3>1 DEF UpToDate
    <3>2. CASE d # c /\ copy[d] = None
      BY <1>2, <3>2 DEF UpToDate, IInv, TypeOK
    <3>3. CASE d # c /\ copy[d] # None
      <4>1. ~tainted[d] /\ stored' = stored
        BY <1>3, <2>1, <3>3
      <4>2. Current' = Current
        BY <4>1 DEF Current
      <4> QED
        BY <1>2, <3>3, <4>1, <4>2 DEF UpToDate, IInv, CopiesUpToDate
    <3> QED BY <3>1, <3>2, <3>3
  <2> QED BY <2>1 DEF CopiesUpToDate
<1> QED BY <1>4, <1>5, <1>6 DEF IInv

LEMMA NextIInv == IInv /\ [Next]_vars => IInv'
<1> SUFFICES ASSUME IInv, [Next]_vars
             PROVE  IInv'
  OBVIOUS
<1>0. Sound(Current) /\ Sound(Fresh)
  BY CurrentSound, FreshSound DEF IInv
<1>1. ASSUME NEW c \in Calls, Ask(c)
      PROVE  IInv'
  <2>1. Sound(Transitioned(Current)) /\ Sound(Transitioned(Fresh))
    BY <1>0, TransitionedSound
  <2>2. \/ /\ copy' = [copy EXCEPT ![c] = Transitioned(Current)]
           /\ tainted' = [tainted EXCEPT ![c] = FALSE]
        \/ /\ copy' = [copy EXCEPT ![c] = Transitioned(Fresh)]
           /\ tainted' = [tainted EXCEPT ![c] = TRUE]
    BY <1>1 DEF Ask, Get
  <2>3. pc' = [pc EXCEPT ![c] = "asking"] /\ UNCHANGED <<stored, up>>
    BY <1>1 DEF Ask
  <2> QED BY <2>1, <2>2, <2>3, GetKeepsIInv
<1>2. ASSUME NEW c \in Calls, Asked(c)
      PROVE  IInv'
  <2>1. copy[c] # None
    BY <1>2 DEF Asked, IInv, TypeOK
  <2>2. PICK place \in {"idle", "admitted"} : pc' = [pc EXCEPT ![c] = place]
    BY <1>2 DEF Asked
  <2> QED BY <1>2, <2>1, <2>2, EndKeepsIInv DEF Asked
<1>3. ASSUME NEW c \in Calls, Report(c)
      PROVE  IInv'
  <2>1. /\ Sound(Succeeded(Current)) /\ Sound(Succeeded(Fresh))
        /\ Sound(Failed(Current)) /\ Sound(Failed(Fresh))
    BY <1>0, SucceededSound, FailedSound
  <2>2. pc' = [pc EXCEPT ![c] = "reporting"] /\ UNCHANGED <<stored, up>>
    BY <1>3 DEF Report
  <2>3. CASE up
    <3>1. \/ /\ copy' = [copy EXCEPT ![c] = Succeeded(Current)]
             /\ tainted' = [tainted EXCEPT ![c] = FALSE]
          \/ /\ copy' = [copy EXCEPT ![c] = Succeeded(Fresh)]
             /\ tainted' = [tainted EXCEPT ![c] = TRUE]
      BY <1>3, <2>3 DEF Report, Get
    <3> QED BY <2>1, <2>2, <3>1, GetKeepsIInv
  <2>4. CASE ~up
    <3>1. \/ /\ copy' = [copy EXCEPT ![c] = Failed(Current)]
             /\ tainted' = [tainted EXCEPT ![c] = FALSE]
          \/ /\ copy' = [copy EXCEPT ![c] = Failed(Fresh)]
             /\ tainted' = [tainted EXCEPT ![c] = TRUE]
      BY <1>3, <2>4 DEF Report, Get
    <3> QED BY <2>1, <2>2, <3>1, GetKeepsIInv
  <2> QED BY <2>3, <2>4
<1>4. ASSUME NEW c \in Calls, Reported(c)
      PROVE  IInv'
  <2>1. copy[c] # None
    BY <1>4 DEF Reported, IInv, TypeOK
  <2> QED BY <1>4, <2>1, EndKeepsIInv DEF Reported
<1>5. ASSUME NEW c \in Calls, Abandon(c)
      PROVE  IInv'
  <2>1. /\ pc' = [pc EXCEPT ![c] = "idle"] /\ pc[c] = "admitted"
        /\ UNCHANGED <<stored, copy, tainted, up>> /\ Current' = Current
    BY <1>5 DEF Abandon, Current
  <2>2. TypeOK' /\ CopiesSound'
    BY <2>1 DEF IInv, TypeOK, CopiesSound, Sound
  <2>3. CopiesUpToDate'
    BY <2>1 DEF IInv, TypeOK, CopiesUpToDate, UpToDate
  <2> QED BY <2>2, <2>3 DEF IInv
<1>6. CASE Reset
  <2>1. TypeOK' /\ CopiesSound'
    BY <1>6 DEF Reset, IInv, TypeOK, CopiesSound, Sound
  <2>2. CopiesUpToDate'
    BY <1>6 DEF Reset, IInv, TypeOK, CopiesUpToDate, UpToDate
  <2> QED BY <2>1, <2>2 DEF IInv
<1>7. CASE Flip
  <2>1. TypeOK' /\ CopiesSound'
    BY <1>7 DEF Flip, IInv, TypeOK, CopiesSound, Sound
  <2>2. Current' = Current
    BY <1>7 DEF Flip, Current
  <2>3. CopiesUpToDate'
    BY <1>7, <2>2 DEF Flip, IInv, CopiesUpToDate, UpToDate
  <2> QED BY <2>1, <2>3 DEF IInv
<1>8. CASE Tick
  <2>1. Older(None) = None
    BY DEF Older
  <2>2. /\ stored' = Older(stored)
        /\ \A c \in Calls : copy'[c] = Older(copy[c])
        /\ \A c \in Calls : tainted'[c] = (tainted[c] \/ copy[c] # None)
    BY <1>8 DEF Tick
  <2>3. /\ stored # None => Sound(stored') /\ stored' # None
        /\ \A c \in Calls : copy[c] # None => Sound(copy'[c]) /\ copy'[c] # None
    BY <2>2, OlderSound, NoneAssumption DEF IInv, CopiesSound, Sound
  <2>4. TypeOK'
    BY <1>8, <2>1, <2>2, <2>3 DEF Tick, IInv, TypeOK, Sound
  <2>5. CopiesSound'
    BY <2>1, <2>2, <2>3 DEF CopiesSound, Sound
  <2>6. CopiesUpToDate'
    BY <1>8, <2>2 DEF Tick, IInv, TypeOK, CopiesUpToDate, UpToDate
  <2> QED BY <2>4, <2>5, <2>6 DEF IInv
<1>9. CASE UNCHANGED vars
  <2>1. Current' = Current
    BY <1>9 DEF vars, Current
  <2> QED
    BY <1>9, <2>1 DEF vars, IInv, TypeOK, CopiesSound, Sound, CopiesUpToDate, UpToDate
<1> QED
  BY <1>1, <1>2, <1>3, <1>4, <1>5, <1>6, <1>7, <1>8, <1>9 DEF Next

LEMMA Invariance == Spec => []IInv
BY InitIInv, NextIInv, PTL DEF Spec

-----------------------------------------------------------------------------
(* A method that nobody overtakes *)

\* What the hash holds, as a record of the breaker of one instance: the same fields,
\* and the elapsed time that only an open circuit is asked for.
LEMMA LocalBreaker ==
  ASSUME IInv
  PROVE  LET b == Local!Get(Host) IN
         /\ b.state = Current.state /\ b.failures = Current.failures
         /\ b.threshold = Current.threshold /\ b.cooldown = Current.cooldown
         /\ b.base = BaseCooldown
         /\ b.state = "open" => b.elapsed = Current.elapsed
         /\ b = [state |-> b.state, failures |-> b.failures, threshold |-> b.threshold,
                 base |-> b.base, cooldown |-> b.cooldown, elapsed |-> b.elapsed]
<1>1. CASE stored = None
  BY <1>1 DEF Local!Get, Local!NewBreaker, Current, Fresh
<1>2. CASE stored # None
  <2>1. Local!Get(Host) =
          [state |-> stored.state, failures |-> stored.failures,
           threshold |-> stored.threshold, base |-> BaseCooldown,
           cooldown |-> stored.cooldown, elapsed |-> stored.elapsed]
    <3> DEFINE r == [state |-> stored.state, failures |-> stored.failures,
                     threshold |-> stored.threshold, base |-> BaseCooldown,
                     cooldown |-> stored.cooldown, elapsed |-> stored.elapsed]
    <3>1. stored \in State
      BY <1>2 DEF IInv, TypeOK
    <3>2. r \in Local!Breaker
      BY <3>1 DEF State, Local!Breaker, Local!Health
    <3>3. r # None
      BY <3>2, LocalNoneAssumption
    <3>4. Local!Get(Host) = IF r = None THEN Local!NewBreaker ELSE r
      BY <1>2 DEF Local!Get
    <3> QED BY <3>3, <3>4
  <2> QED BY <1>2, <2>1 DEF Current
<1> QED BY <1>1, <1>2

\* Asking, succeeding and failing make of the hash what they make of that record, a
\* failure that finds an open circuit past its cooldown excepted.
LEMMA MethodsAgree ==
  ASSUME IInv
  PROVE  LET b == Local!Get(Host) IN
         /\ Agree(Transitioned(Current), Local!Refreshed(b))
         /\ Agree(Succeeded(Current), Local!AfterSuccess(b))
         /\ (Current.state = "open" => ~(Current.elapsed >= Current.cooldown))
              => Agree(Failed(Current), Local!AfterFailure(b))
<1> DEFINE b == Local!Get(Host)
<1>1. /\ b.state = Current.state /\ b.failures = Current.failures
      /\ b.threshold = Current.threshold /\ b.cooldown = Current.cooldown
      /\ b.base = BaseCooldown
      /\ b.state = "open" => b.elapsed = Current.elapsed
      /\ b = [state |-> b.state, failures |-> b.failures, threshold |-> b.threshold,
              base |-> b.base, cooldown |-> b.cooldown, elapsed |-> b.elapsed]
  BY LocalBreaker
<1>2. Current \in State /\ Current.state \in {"healthy", "open", "half_open"}
  BY CurrentSound, Fields DEF IInv, Sound
<1> HIDE DEF b
<1>3. Agree(Transitioned(Current), Local!Refreshed(b))
  BY <1>1, <1>2 DEF Agree, Transitioned, Local!Refreshed, State
<1>4. Agree(Succeeded(Current), Local!AfterSuccess(b))
  BY <1>1, <1>2 DEF Agree, Succeeded, Local!AfterSuccess, State
<1>5. ASSUME Current.state = "open" => ~(Current.elapsed >= Current.cooldown)
      PROVE  Agree(Failed(Current), Local!AfterFailure(b))
  <2> DEFINE f == UpTo(Current.failures + 1, FailureCap)
             c == UpTo(2 * Current.cooldown, MaxCooldown)
  <2>1. Transitioned(Current) = Current
    BY <1>5 DEF Transitioned
  <2>2. /\ Local!UpTo(b.failures + 1, FailureCap) = f
        /\ Local!UpTo(b.cooldown * 2, MaxCooldown) = c
    <3>1. b.cooldown * 2 = 2 * Current.cooldown
      BY <1>1, <1>2, Fields
    <3> QED BY <1>1, <3>1 DEF UpTo, Local!UpTo
  <2>3. Failed(Current) =
          [Current EXCEPT !.failures = f, !.elapsed = 0,
             !.state = IF f >= Current.threshold \/ Current.state = "half_open"
                       THEN "open" ELSE Current.state,
             !.cooldown = IF Current.state = "half_open" THEN c ELSE Current.cooldown]
    BY <2>1 DEF Failed
  <2>4. Local!AfterFailure(b) =
          IF b.state = "half_open"
          THEN [b EXCEPT !.failures = f, !.elapsed = 0, !.state = "open", !.cooldown = c]
          ELSE IF f >= b.threshold
          THEN [b EXCEPT !.failures = f, !.elapsed = 0, !.state = "open"]
          ELSE [b EXCEPT !.failures = f, !.elapsed = 0]
    BY <2>2 DEF Local!AfterFailure
  <2> HIDE DEF f, c
  <2>5. CASE Current.state = "half_open"
    BY <1>1, <1>2, <2>3, <2>4, <2>5 DEF Agree, State
  <2>6. CASE Current.state # "half_open" /\ f >= Current.threshold
    BY <1>1, <1>2, <2>3, <2>4, <2>6 DEF Agree, State
  <2>7. CASE Current.state # "half_open" /\ ~(f >= Current.threshold)
    BY <1>1, <1>2, <2>3, <2>4, <2>7 DEF Agree, State
  <2> QED BY <2>5, <2>6, <2>7
<1> QED BY <1>3, <1>4, <1>5 DEF b

-----------------------------------------------------------------------------
(* Theorems *)

\* Whatever order the gets and sets of the instances come in, and whichever of them
\* Redis fails, the hash is the record of a well formed breaker.
THEOREM TypeCorrect == Spec => []TypeOK
<1>1. IInv => TypeOK
  BY DEF IInv
<1> QED
  BY <1>1, Invariance, PTL

\* For any number of instances and any overtaking, the hash counts a threshold of
\* failures exactly when it says that the circuit is open or half open.
THEOREM HashIsAlwaysConsistent == Spec => []HashIsConsistent
<1>1. IInv => HashIsConsistent
  BY DEF IInv, CopiesSound, Sound, HashIsConsistent
<1> QED
  BY <1>1, Invariance, PTL

\* A method that nobody overtakes and Redis does not fail does to the hash what the
\* breaker of one instance does, for any number of calls and any settings, except to
\* a failure that comes after the cooldown of an open circuit.
THEOREM MatchesOneInstance == Spec => MatchesLocalUnlessLate
<1> DEFINE Matches == \A c \in Calls : SetsIn(c) /\ ~IsLate(c) => Agree(stored', LocalResult(c))
<1>1. IInv => Matches
  <2> SUFFICES ASSUME IInv, NEW c \in Calls, SetsIn(c), ~IsLate(c)
               PROVE  Agree(copy[c], LocalResult(c))
    BY DEF SetsIn
  <2>1. UpToDate(c) /\ pc[c] \in {"asking", "reporting"}
    BY DEF SetsIn, IInv, CopiesUpToDate, TypeOK
  <2>2. Sound(Current)
    BY CurrentSound DEF IInv
  <2>3. CASE pc[c] = "asking"
    BY <2>1, <2>3, MethodsAgree DEF UpToDate, LocalResult
  <2>4. CASE pc[c] = "reporting" /\ copy[c] = Succeeded(Current)
    <3>1. ~IsFailure(copy[c])
      BY <2>2, <2>4, SucceededSound
    <3> QED
      BY <2>4, <3>1, MethodsAgree DEF LocalResult
  <2>5. CASE pc[c] = "reporting" /\ copy[c] = Failed(Current)
    <3>1. IsFailure(copy[c])
      BY <2>2, <2>5, FailedSound
    <3>2. Current.state = "open" => ~(Current.elapsed >= Current.cooldown)
      BY <2>5, <3>1 DEF IsLate, Current, Fresh
    <3> QED
      BY <2>5, <3>1, <3>2, MethodsAgree DEF LocalResult
  <2> QED BY <2>1, <2>3, <2>4, <2>5 DEF UpToDate
<1>2. IInv /\ [Next]_vars => [Matches]_vars
  BY <1>1
<1> QED
  BY <1>2, Invariance, PTL DEF Spec, MatchesLocalUnlessLate
=============================================================================
